---- MODULE Spec2Model ----
(***************************************************************************)
(* minizinc-python, src/minizinc/driver.py: the ExecDriver solver          *)
(* configuration record, its identity (id) invalidation, discovery         *)
(* (load_solver), the scoped materializer (_gen_solver), solve,            *)
(* serialization (to_json) and driver detection (find_minizinc).           *)
(***************************************************************************)
EXTENDS Integers, Sequences, FiniteSets, TLC

(***************************************************************************)
(* Bounds of the model.                                                    *)
(***************************************************************************)
\* distinct objects that may hold equal contents (object identity vs value)
Copies == 2
\* host attribute writes per record in one behaviour
MaxWrites == 1
\* descriptors in a registry response
MaxSolvers == 2

\* documents kept per record: to_json calls the model follows
MaxDocs == 2

Records == {"r1", "r2"}

(***************************************************************************)
(* Python str contents are sequences of one-character strings, so that     *)
(* split, lower, sorted and the version regex are computed, not assumed.   *)
(***************************************************************************)
Ascii ==
    <<"-", ".", "/", "0", "1", "2", "3", "4", "5", "6", "7", "8", "9",
      "A", "B", "C", "D", "E", "F", "G", "H", "I", "J", "K", "L", "M",
      "N", "O", "P", "Q", "R", "S", "T", "U", "V", "W", "X", "Y", "Z", "_",
      "a", "b", "c", "d", "e", "f", "g", "h", "i", "j", "k", "l", "m",
      "n", "o", "p", "q", "r", "s", "t", "u", "v", "w", "x", "y", "z">>

\* position in code-point order (order-preserving stand-in for ord())
Ord(c) == CHOOSE i \in 1..Len(Ascii) : Ascii[i] = c

Digits == <<"0", "1", "2", "3", "4", "5", "6", "7", "8", "9">>

IsDigit(c) == \E i \in 1..Len(Digits) : Digits[i] = c

DigitVal(c) == (CHOOSE i \in 1..Len(Digits) : Digits[i] = c) - 1

\* str < str, lexicographic by code point
RECURSIVE StrLess(_, _)
StrLess(a, b) ==
    IF b = <<>> THEN FALSE
    ELSE IF a = <<>> THEN TRUE
    ELSE IF Head(a) = Head(b) THEN StrLess(Tail(a), Tail(b))
    ELSE Ord(Head(a)) < Ord(Head(b))

\* str(i) for a natural number
RECURSIVE IntToStr(_)
IntToStr(n) ==
    IF n < 10 THEN <<Digits[n + 1]>>
    ELSE IntToStr(n \div 10) \o <<Digits[(n % 10) + 1]>>

\* int(s) for a run of decimal digits
RECURSIVE StrToInt(_)
StrToInt(s) ==
    IF s = <<>> THEN 0
    ELSE 10 * StrToInt(SubSeq(s, 1, Len(s) - 1)) + DigitVal(s[Len(s)])

\* s.split(".")[-1]
RECURSIVE LastSegment(_)
LastSegment(s) ==
    IF s = <<>> THEN <<>>
    ELSE IF s[Len(s)] = "." THEN <<>>
    ELSE LastSegment(SubSeq(s, 1, Len(s) - 1)) \o <<s[Len(s)]>>

Upper == <<"A", "B", "C", "D", "E", "F", "G", "H", "I", "J", "K", "L", "M",
           "N", "O", "P", "Q", "R", "S", "T", "U", "V", "W", "X", "Y", "Z">>

Lower == <<"a", "b", "c", "d", "e", "f", "g", "h", "i", "j", "k", "l", "m",
           "n", "o", "p", "q", "r", "s", "t", "u", "v", "w", "x", "y", "z">>

LowerChar(c) ==
    IF \E i \in 1..Len(Upper) : Upper[i] = c
    THEN Lower[CHOOSE i \in 1..Len(Upper) : Upper[i] = c]
    ELSE c

\* a lower() that leaves the text as it is
StrSame(s) == s

\* s.lower()
StrLower(s) == [i \in 1..Len(s) |-> LowerChar(s[i])]

\* sep.join(parts)
RECURSIVE Join(_, _)
Join(sep, parts) ==
    IF parts = <<>> THEN <<>>
    ELSE IF Len(parts) = 1 THEN parts[1]
    ELSE parts[1] \o sep \o Join(sep, Tail(parts))

(***************************************************************************)
(* re.search(r"(\d+)\.(\d+)\.(\d+)", text): the groups of the leftmost     *)
(* match as a triple of integers, <<>> when nothing matches.               *)
(***************************************************************************)
\* end index of the maximal run of digits starting at i (i - 1 when none)
RECURSIVE DigitRunEnd(_, _)
DigitRunEnd(s, i) ==
    IF i <= Len(s) /\ IsDigit(s[i]) THEN DigitRunEnd(s, i + 1) ELSE i - 1

MatchAt(s, i) ==
    LET e1 == DigitRunEnd(s, i)
        e2 == DigitRunEnd(s, e1 + 2)
        e3 == DigitRunEnd(s, e2 + 2)
    IN  IF /\ e1 >= i
           /\ e1 + 1 <= Len(s) /\ s[e1 + 1] = "."
           /\ e2 >= e1 + 2
           /\ e2 + 1 <= Len(s) /\ s[e2 + 1] = "."
           /\ e3 >= e2 + 2
        THEN <<StrToInt(SubSeq(s, i, e1)),
               StrToInt(SubSeq(s, e1 + 2, e2)),
               StrToInt(SubSeq(s, e2 + 2, e3))>>
        ELSE <<>>

RECURSIVE SearchFrom(_, _)
SearchFrom(s, i) ==
    IF i > Len(s) THEN <<>>
    ELSE IF MatchAt(s, i) # <<>> THEN MatchAt(s, i)
    ELSE SearchFrom(s, i + 1)

VersionSearch(text) == SearchFrom(text, 1)

\* tuple >= tuple for version triples
TupleGE(a, b) ==
    \/ a[1] > b[1]
    \/ a[1] = b[1] /\ a[2] > b[2]
    \/ a[1] = b[1] /\ a[2] = b[2] /\ a[3] >= b[3]

required_version == <<2, 2, 0>>

(***************************************************************************)
(* Python objects: contents (ty, val) plus an identity (ref).  Two objects *)
(* are the same object (is) iff all three agree; they are equal (==) iff   *)
(* type and contents agree.  None, True and False are singletons.          *)
(***************************************************************************)
None == [ty |-> "NoneType", val |-> <<>>, ref |-> 0]

Unset == [ty |-> "unset", val |-> <<>>, ref |-> 0]

PyStr(s, c) == [ty |-> "str", val |-> s, ref |-> c]

PyList(l, c) == [ty |-> "list", val |-> l, ref |-> c]

PyTuple(t, c) == [ty |-> "tuple", val |-> t, ref |-> c]

PyBool(b) == [ty |-> "bool", val |-> b, ref |-> 0]

Is(a, b) == a.ty = b.ty /\ a.ref = b.ref /\ a.val = b.val

PyEq(a, b) == a.ty = b.ty /\ a.val = b.val

Refs == 0..(Copies - 1)

(***************************************************************************)
(* String literals of the source.                                          *)
(***************************************************************************)
s_p == <<"-", "p">>

s_r == <<"-", "r">>

s_f == <<"-", "f">>

s_solver == <<"-", "-", "s", "o", "l", "v", "e", "r">>

s_output_mode == <<"-", "-", "o", "u", "t", "p", "u", "t", "-", "m", "o", "d", "e">>

s_json == <<"j", "s", "o", "n">>

s_output_time == <<"-", "-", "o", "u", "t", "p", "u", "t", "-", "t", "i", "m", "e">>

s_version_prefix == <<"v", "e", "r", "s", "i", "o", "n", " ">>

s_id_prefix ==
    <<"o", "r", "g", ".", "m", "i", "n", "i", "z", "i", "n", "c", ".",
      "p", "y", "t", "h", "o", "n", ".">>

s_tmp_prefix ==
    <<"m", "i", "n", "i", "z", "i", "n", "c", "_", "s", "o", "l", "v", "e", "r", "_">>

s_tmp_suffix == <<".", "m", "s", "c">>

Range(f) == {f[i] : i \in DOMAIN f}

(***************************************************************************)
(* ExecDriver: an instance is its attribute dictionary.                    *)
(***************************************************************************)
CapabilityFields ==
    {"version", "executable", "mznlib", "tags", "stdFlags", "extraFlags",
     "supportsMzn", "supportsFzn", "needsSolns2Out", "needsMznExecutable",
     "needsStdlibDir", "isGUIApplication"}

Attrs == CapabilityFields \cup {"driver", "name", "id"}

NoInstance == [a \in Attrs |-> Unset]

\* getattr(self, key, None)
GetAttr(self, key) == IF self[key] = Unset THEN None ELSE self[key]

\* a __setattr__ that stores the value and never clears id
SetattrNoClear(self, key, value) == [self EXCEPT ![key] = value]

\* a __setattr__ whose key list is not consulted: a new object under any
\* other attribute clears id as well
SetattrAnyKey(self, key, value) ==
    LET cleared == IF key # "id" /\ ~Is(GetAttr(self, key), value)
                   THEN [self EXCEPT !["id"] = None]
                   ELSE self
    IN  [cleared EXCEPT ![key] = value]

\* ExecDriver.__setattr__
Setattr(self, key, value) ==
    LET cleared == IF key \in CapabilityFields /\ ~Is(GetAttr(self, key), value)
                   THEN [self EXCEPT !["id"] = None]
                   ELSE self
    IN  [cleared EXCEPT ![key] = value]

\* the result of a call: a value, or an exception with its argument
Returned(v) == [kind |-> "return", exc |-> "", arg |-> <<>>, code |-> 0, self |-> v]

Raised(e, a) == [kind |-> "raise", exc |-> e, arg |-> a, code |-> 0, self |-> NoInstance]

(***************************************************************************)
(* ExecDriver.minizinc_version: parse the text `driver --version` prints.  *)
(***************************************************************************)
RECURSIVE PrefixedSearchFrom(_, _)
PrefixedSearchFrom(s, i) ==
    LET n == Len(s_version_prefix)
    IN  IF i + n > Len(s) THEN <<>>
        ELSE IF SubSeq(s, i, i + n - 1) = s_version_prefix /\ MatchAt(s, i + n) # <<>>
        THEN MatchAt(s, i + n)
        ELSE PrefixedSearchFrom(s, i + 1)

minizinc_version(stdout) == PrefixedSearchFrom(stdout, 1)

(***************************************************************************)
(* ExecDriver.__init__ with Driver.__init__: every assignment goes through *)
(* __setattr__.  versionOut is what the base tool prints for --version;    *)
(* debug is __debug__: an assert statement is compiled only when it holds  *)
(* (it is false under python -O).                                          *)
(***************************************************************************)
default_driver == None

InitOptional(self) ==
    LET a1 == Setattr(self, "mznlib", PyStr(<<>>, 0))
        a2 == Setattr(a1, "tags", PyList(<<>>, 0))
        a3 == Setattr(a2, "stdFlags", PyList(<<>>, 0))
        a4 == Setattr(a3, "extraFlags", PyList(<<>>, 0))
        a5 == Setattr(a4, "supportsMzn", PyBool(FALSE))
        a6 == Setattr(a5, "supportsFzn", PyBool(TRUE))
        a7 == Setattr(a6, "needsSolns2Out", PyBool(FALSE))
        a8 == Setattr(a7, "needsMznExecutable", PyBool(FALSE))
        a9 == Setattr(a8, "needsStdlibDir", PyBool(FALSE))
    IN  Setattr(a9, "isGUIApplication", PyBool(FALSE))

ExecDriver_init(name, version, executable, minizinc, versionOut, debug) ==
    LET drv == IF minizinc = None THEN default_driver ELSE minizinc
        s1 == Setattr(NoInstance, "driver", drv)
        s2 == Setattr(s1, "name", name)
        tool == minizinc_version(versionOut)
        s3 == Setattr(s2, "id", None)
        match == VersionSearch(version.val)
        s4 == Setattr(s3, "version", PyTuple(match, 0))
        s5 == Setattr(s4, "executable", executable)
    IN  IF drv = None THEN Raised("TypeError", <<>>)
        ELSE IF tool = <<>> THEN Raised("AttributeError", <<>>)
        ELSE IF debug /\ ~TupleGE(tool, required_version)
        THEN Raised("AssertionError", <<>>)
        ELSE IF match = <<>> THEN Raised("AttributeError", <<>>)
        ELSE Returned(InitOptional(s5))

(***************************************************************************)
(* ExecDriver.to_json: the document, as a mapping from its keys to JSON    *)
(* values (json.dumps with sort_keys makes the text a function of it).     *)
(***************************************************************************)
JsonVal(o) == [ty |-> o.ty, val |-> o.val]

to_json(self) ==
    [name |-> JsonVal(self["name"]),
     version |-> [ty |-> "str",
                  val |-> Join(<<".">>, [i \in 1..Len(self["version"].val) |->
                                            IntToStr(self["version"].val[i])])],
     mznlib |-> JsonVal(self["mznlib"]),
     tags |-> JsonVal(self["tags"]),
     executable |-> JsonVal(self["executable"]),
     supportsMzn |-> JsonVal(self["supportsMzn"]),
     supportsFzn |-> JsonVal(self["supportsFzn"]),
     needsSolns2Out |-> JsonVal(self["needsSolns2Out"]),
     needsMznExecutable |-> JsonVal(self["needsMznExecutable"]),
     needsStdlibDir |-> JsonVal(self["needsStdlibDir"]),
     isGUIApplication |-> JsonVal(self["isGUIApplication"]),
     id |-> IF self["id"] = None
            THEN [ty |-> "str", val |-> s_id_prefix \o StrLower(self["name"].val)]
            ELSE JsonVal(self["id"])]

(***************************************************************************)
(* ExecDriver.load_solver.  A descriptor of the registry response is a     *)
(* function from the keys it holds to the objects json.loads built.        *)
(***************************************************************************)
\* info.get(key, default)
DictGet(info, key, default) == IF key \in DOMAIN info THEN info[key] ELSE default

\* candidate names that leave out the last segment of the id
SNamesNoLastSegment(s) ==
    <<s["id"].val>> \o DictGet(s, "tags", PyList(<<>>, 0)).val

\* the candidate names of one descriptor: s_names of the loop
SNames(s) ==
    <<s["id"].val, LastSegment(s["id"].val)>> \o DictGet(s, "tags", PyList(<<>>, 0)).val

\* a search loop without the break: the last matching descriptor wins
RECURSIVE FindSolverNoBreak(_, _, _, _, _)
FindSolverNoBreak(solvers, solver, i, names, info) ==
    IF i > Len(solvers) THEN [info |-> info, names |-> names]
    ELSE FindSolverNoBreak(solvers, solver, i + 1,
                           names \cup Range(SNames(solvers[i])),
                           IF solver \in Range(SNames(solvers[i])) THEN i ELSE info)

\* the search loop: info is the index of the first match (0 for None),
\* names the union of the candidate names seen up to the break
RECURSIVE FindSolver(_, _, _, _, _)
FindSolver(solvers, solver, i, names, info) ==
    IF i > Len(solvers) THEN [info |-> info, names |-> names]
    ELSE LET s_names == SNames(solvers[i])
             names2 == names \cup Range(s_names)
         IN  IF solver \in Range(s_names)
             THEN [info |-> i, names |-> names2]
             ELSE FindSolver(solvers, solver, i + 1, names2, info)

\* sorted([x for x in names])
RECURSIVE Sorted(_)
Sorted(S) ==
    IF S = {} THEN <<>>
    ELSE LET m == CHOOSE x \in S : \A y \in S \ {x} : StrLess(x, y)
         IN  <<m>> \o Sorted(S \ {m})

\* an overlay that assigns id first and the optional fields after it
OverlayIdFirst(ret0, info) ==
    LET ret == Setattr(ret0, "id", info["id"])
        o1 == Setattr(ret, "mznlib", DictGet(info, "mznlib", ret["mznlib"]))
        o2 == Setattr(o1, "tags", DictGet(info, "tags", o1["mznlib"]))
        o3 == Setattr(o2, "stdFlags", DictGet(info, "stdFlags", o2["mznlib"]))
        o4 == Setattr(o3, "extraFlags", DictGet(info, "extraFlags", o3["mznlib"]))
        o5 == Setattr(o4, "supportsMzn", DictGet(info, "supportsMzn", o4["mznlib"]))
        o6 == Setattr(o5, "supportsFzn", DictGet(info, "supportsFzn", o5["mznlib"]))
        o7 == Setattr(o6, "needsSolns2Out", DictGet(info, "needsSolns2Out", o6["mznlib"]))
        o8 == Setattr(o7, "needsMznExecutable",
                      DictGet(info, "needsMznExecutable", o7["mznlib"]))
        o9 == Setattr(o8, "needsStdlibDir", DictGet(info, "needsStdlibDir", o8["mznlib"]))
    IN  Setattr(o9, "isGUIApplication", DictGet(info, "isGUIApplication", o9["mznlib"]))

\* "Set all specified options": every default read is ret.mznlib
Overlay(ret, info) ==
    LET o1 == Setattr(ret, "mznlib", DictGet(info, "mznlib", ret["mznlib"]))
        o2 == Setattr(o1, "tags", DictGet(info, "tags", o1["mznlib"]))
        o3 == Setattr(o2, "stdFlags", DictGet(info, "stdFlags", o2["mznlib"]))
        o4 == Setattr(o3, "extraFlags", DictGet(info, "extraFlags", o3["mznlib"]))
        o5 == Setattr(o4, "supportsMzn", DictGet(info, "supportsMzn", o4["mznlib"]))
        o6 == Setattr(o5, "supportsFzn", DictGet(info, "supportsFzn", o5["mznlib"]))
        o7 == Setattr(o6, "needsSolns2Out", DictGet(info, "needsSolns2Out", o6["mznlib"]))
        o8 == Setattr(o7, "needsMznExecutable",
                      DictGet(info, "needsMznExecutable", o7["mznlib"]))
        o9 == Setattr(o8, "needsStdlibDir", DictGet(info, "needsStdlibDir", o8["mznlib"]))
        o10 == Setattr(o9, "isGUIApplication",
                       DictGet(info, "isGUIApplication", o9["mznlib"]))
    IN  Setattr(o10, "id", info["id"])

\* ExecDriver.load_solver(solver, driver) against the registry response
\* solvers; versionOut is what the base tool prints for --version
ExecDriver_load_solver(solver, driver, solvers, versionOut, debug) ==
    LET found == FindSolver(solvers, solver, 1, {}, 0)
        info == solvers[found.info]
        ret == ExecDriver_init(info["name"], info["version"], info["executable"],
                               driver, versionOut, debug)
    IN  IF found.info = 0 THEN Raised("LookupError", Sorted(found.names))
        ELSE IF ret.kind = "raise" THEN ret
        ELSE Returned(Overlay(ret.self, info))

(***************************************************************************)
(* ExecDriver._gen_solver: the part before the yield and the finally       *)
(* clause.  A filesystem is the set of its artifacts, each a name with the *)
(* contents written to it; the local variable file is <<>> for None and    *)
(* <<name>> for an open NamedTemporaryFile.                                *)
(***************************************************************************)
FsNames(fsys) == {e.name : e \in fsys}

\* a materializer that always writes an artifact, whatever id is
GenSolverEnterAlways(self, fsys, fresh) ==
    [self |-> Setattr(self, "id", PyStr(fresh, 0)),
     fsys |-> fsys \cup {[name |-> fresh, doc |-> to_json(self)]},
     file |-> <<fresh>>,
     solver |-> PyStr(fresh, 0)]

\* lines 139-147: fresh is the name NamedTemporaryFile picks
GenSolverEnter(self, fsys, fresh) ==
    IF self["id"] = None
    THEN [self |-> Setattr(self, "id", PyStr(fresh, 0)),
          fsys |-> fsys \cup {[name |-> fresh, doc |-> to_json(self)]},
          file |-> <<fresh>>,
          solver |-> PyStr(fresh, 0)]
    ELSE [self |-> self, fsys |-> fsys, file |-> <<>>, solver |-> self["id"]]

\* a release that runs only when the body returned (no try/finally)
GenSolverExitNoFinally(self, fsys, file, failed) ==
    IF file # <<>> /\ ~failed
    THEN [self |-> Setattr(self, "id", None),
          fsys |-> {e \in fsys : e.name # file[1]}]
    ELSE [self |-> self, fsys |-> fsys]

\* lines 148-151: the finally clause; failed tells whether the body raised
GenSolverExit(self, fsys, file, failed) ==
    IF file # <<>>
    THEN [self |-> Setattr(self, "id", None),
          fsys |-> {e \in fsys : e.name # file[1]}]
    ELSE [self |-> self, fsys |-> fsys]

(***************************************************************************)
(* ExecDriver.solve, lines 165-185: the command, or the exception of a     *)
(* capability gate.  A token is the type and contents of a list element;   *)
(* an optional argument is <<>> for None and <<v>> for the value v.        *)
(***************************************************************************)
Tok(o) == [ty |-> o.ty, val |-> o.val]

StrTok(s) == [ty |-> "str", val |-> s]

IntTok(n) == [ty |-> "int", val |-> n]

IsSubstr(a, b) ==
    \E i \in 0..(Len(b) - Len(a)) : SubSeq(b, i + 1, i + Len(a)) = a

\* s in container, for a list of str or a str
PyIn(s, container) ==
    IF container.ty = "list" THEN \E i \in 1..Len(container.val) : container.val[i] = s
    ELSE IF container.ty = "str" THEN IsSubstr(s, container.val)
    ELSE FALSE

Iterable(o) == o.ty \in {"list", "str", "tuple"}

CmdResult(c) == [kind |-> "cmd", exc |-> "", arg |-> <<>>, cmd |-> c]

CmdRaised(e, a) == [kind |-> "raise", exc |-> e, arg |-> a, cmd |-> <<>>]

\* a builder without the capability gates
solve_cmd_ungated(self, solver, processes, random_seed, free_search, files) ==
    CmdResult(<<Tok(self["driver"]), StrTok(s_solver), Tok(solver),
                StrTok(s_output_mode), StrTok(s_json), StrTok(s_output_time)>>
              \o (IF processes # <<>> THEN <<StrTok(s_p), IntTok(processes[1])>> ELSE <<>>)
              \o (IF random_seed # <<>> THEN <<StrTok(s_r), IntTok(random_seed[1])>> ELSE <<>>)
              \o (IF free_search THEN <<StrTok(s_f)>> ELSE <<>>)
              \o [i \in 1..Len(files) |-> Tok(files[i])])

\* a builder that emits the seed before the process count
solve_cmd_swapped(self, solver, processes, random_seed, free_search, files) ==
    LET std == self["stdFlags"]
    IN  IF processes # <<>> /\ ~PyIn(s_p, std)
        THEN CmdRaised("NotImplementedError", <<s_p>>)
        ELSE IF random_seed # <<>> /\ ~PyIn(s_r, std)
        THEN CmdRaised("NotImplementedError", <<s_r>>)
        ELSE IF free_search /\ ~PyIn(s_f, std)
        THEN CmdRaised("NotImplementedError", <<s_f>>)
        ELSE CmdResult(
              <<Tok(self["driver"]), StrTok(s_solver), Tok(solver),
                StrTok(s_output_mode), StrTok(s_json), StrTok(s_output_time)>>
              \o (IF random_seed # <<>> THEN <<StrTok(s_r), IntTok(random_seed[1])>> ELSE <<>>)
              \o (IF processes # <<>> THEN <<StrTok(s_p), IntTok(processes[1])>> ELSE <<>>)
              \o (IF free_search THEN <<StrTok(s_f)>> ELSE <<>>)
              \o [i \in 1..Len(files) |-> Tok(files[i])])

\* a builder whose gates do not look at the request: every flag must be in
\* stdFlags, and -f is emitted whenever the solver supports it
solve_cmd_gate_absent(self, solver, processes, random_seed, free_search, files) ==
    LET std == self["stdFlags"]
    IN  IF ~PyIn(s_p, std) THEN CmdRaised("NotImplementedError", <<s_p>>)
        ELSE IF ~PyIn(s_r, std) THEN CmdRaised("NotImplementedError", <<s_r>>)
        ELSE IF ~PyIn(s_f, std) THEN CmdRaised("NotImplementedError", <<s_f>>)
        ELSE CmdResult(
              <<Tok(self["driver"]), StrTok(s_solver), Tok(solver),
                StrTok(s_output_mode), StrTok(s_json), StrTok(s_output_time)>>
              \o (IF processes # <<>> THEN <<StrTok(s_p), IntTok(processes[1])>> ELSE <<>>)
              \o (IF random_seed # <<>> THEN <<StrTok(s_r), IntTok(random_seed[1])>> ELSE <<>>)
              \o <<StrTok(s_f)>>
              \o [i \in 1..Len(files) |-> Tok(files[i])])

solve_cmd(self, solver, processes, random_seed, free_search, files) ==
    LET std == self["stdFlags"]
        cmd0 == <<Tok(self["driver"]), StrTok(s_solver), Tok(solver),
                  StrTok(s_output_mode), StrTok(s_json), StrTok(s_output_time)>>
        cmd1 == IF processes # <<>>
                THEN cmd0 \o <<StrTok(s_p), IntTok(processes[1])>>
                ELSE cmd0
        cmd2 == IF random_seed # <<>>
                THEN cmd1 \o <<StrTok(s_r), IntTok(random_seed[1])>>
                ELSE cmd1
        cmd3 == IF free_search THEN cmd2 \o <<StrTok(s_f)>> ELSE cmd2
    IN  IF processes # <<>> /\ ~Iterable(std) THEN CmdRaised("TypeError", <<>>)
        ELSE IF processes # <<>> /\ ~PyIn(s_p, std)
        THEN CmdRaised("NotImplementedError", <<s_p>>)
        ELSE IF random_seed # <<>> /\ ~Iterable(std) THEN CmdRaised("TypeError", <<>>)
        ELSE IF random_seed # <<>> /\ ~PyIn(s_r, std)
        THEN CmdRaised("NotImplementedError", <<s_r>>)
        ELSE IF free_search /\ ~Iterable(std) THEN CmdRaised("TypeError", <<>>)
        ELSE IF free_search /\ ~PyIn(s_f, std)
        THEN CmdRaised("NotImplementedError", <<s_f>>)
        ELSE CmdResult(cmd3 \o [i \in 1..Len(files) |-> Tok(files[i])])

\* subprocess.run accepts str, bytes and path-like arguments only
Launchable(cmd) == \A i \in 1..Len(cmd) : cmd[i].ty \in {"str", "Path"}

\* a run with check=True: a non-zero exit status raises CalledProcessError
solve_run_checked(c, run) ==
    IF c.kind = "raise"
    THEN [kind |-> "raise", exc |-> c.exc, arg |-> c.arg, code |-> 0]
    ELSE IF ~Launchable(c.cmd)
    THEN [kind |-> "raise", exc |-> "TypeError", arg |-> <<>>, code |-> 0]
    ELSE IF ~run.started
    THEN [kind |-> "raise", exc |-> "OSError", arg |-> <<>>, code |-> 0]
    ELSE IF run.code # 0
    THEN [kind |-> "raise", exc |-> "CalledProcessError", arg |-> <<>>, code |-> run.code]
    ELSE [kind |-> "return", exc |-> "", arg |-> <<>>, code |-> run.code]

\* lines 187-188: what solve does once the command c is built (or a gate
\* raised): subprocess.run(cmd, check=False), whose outcome is run, then
\* Result.from_process(output).  A "return" outcome is the call of the
\* decoder with the completed process; code is the exit status it is given.
solve_run(c, run) ==
    IF c.kind = "raise"
    THEN [kind |-> "raise", exc |-> c.exc, arg |-> c.arg, code |-> 0]
    ELSE IF ~Launchable(c.cmd)
    THEN [kind |-> "raise", exc |-> "TypeError", arg |-> <<>>, code |-> 0]
    ELSE IF ~run.started
    THEN [kind |-> "raise", exc |-> "OSError", arg |-> <<>>, code |-> 0]
    ELSE [kind |-> "return", exc |-> "", arg |-> <<>>, code |-> run.code]

(***************************************************************************)
(* The environment: the base tool, registry responses, host inputs.        *)
(***************************************************************************)
PyPath(s) == [ty |-> "Path", val |-> s, ref |-> 0]

DriverPath == PyPath(<<"/", "b", "i", "n", "/", "m", "z", "n">>)

OtherDriverPath == PyPath(<<"/", "o", "p", "t", "/", "m", "z", "n">>)

\* what `driver --version` prints
VersionOutNew == s_version_prefix \o <<"2", ".", "5", ".", "3">>

VersionOutOld == s_version_prefix \o <<"2", ".", "1", ".", "9">>

VersionOuts == {VersionOutNew, VersionOutOld}

\* version texts around the required minimum
VersionOutsAround ==
    {s_version_prefix \o <<a, ".", b, ".", c>> :
        a \in {"1", "2", "3"}, b \in {"1", "2"}, c \in {"0", "9"}}

n_gecode == <<"g", "e", "c", "o", "d", "e">>

n_org_gecode == <<"o", "r", "g", ".">> \o n_gecode

n_org_chuffed == <<"o", "r", "g", ".", "c", "h", "u", "f", "f", "e", "d">>

n_chuffed == <<"c", "h", "u", "f", "f", "e", "d">>

n_cp == <<"c", "p">>

n_Gecode == <<"G", "e", "c", "o", "d", "e">>

n_absent == <<"o", "s", "i">>

OptionalKeys ==
    {"mznlib", "tags", "stdFlags", "extraFlags", "supportsMzn", "supportsFzn",
     "needsSolns2Out", "needsMznExecutable", "needsStdlibDir", "isGUIApplication"}

\* the value of an optional key in a descriptor of the registry document
JsonOptional(key, tags, flags) ==
    CASE key = "mznlib" -> PyStr(<<"-", "G">> \o n_gecode, 0)
      [] key = "tags" -> PyList(tags, 0)
      [] key = "stdFlags" -> PyList(flags, 0)
      [] key = "extraFlags" -> PyList(<<<<"-", "-", "c", "-", "d">>>>, 0)
      [] key = "supportsFzn" -> PyBool(FALSE)
      [] OTHER -> PyBool(TRUE)

\* a descriptor holding the required keys and the optional keys of present
Descriptor(id, present, tags, flags) ==
    [k \in {"id", "name", "version", "executable"} \cup present |->
        CASE k = "id" -> PyStr(id, 0)
          [] k = "name" -> PyStr(n_Gecode, 0)
          [] k = "version" -> PyStr(<<"6", ".", "1", ".", "0">>, 0)
          [] k = "executable" -> PyStr(<<"f", "z", "n">>, 0)
          [] OTHER -> JsonOptional(k, tags, flags)]

\* json.loads(output.stdout): every str and list of the document becomes an
\* object of its own (the objects of descriptor i carry ref i); True and
\* False are the singletons
json_loads(doc) ==
    [i \in 1..Len(doc) |->
        [k \in DOMAIN doc[i] |->
            IF doc[i][k].ty = "bool" THEN doc[i][k]
            ELSE [ty |-> doc[i][k].ty, val |-> doc[i][k].val, ref |-> i]]]

\* sequences over S of length 0..n
RECURSIVE SeqsUpTo(_, _)
SeqsUpTo(S, n) ==
    IF n = 0 THEN {<<>>}
    ELSE LET shorter == SeqsUpTo(S, n - 1)
         IN  shorter \cup {Append(q, x) : q \in {t \in shorter : Len(t) = n - 1}, x \in S}

FlagLists ==
    {<<>>, <<s_p>>, <<s_r>>, <<s_f>>, <<s_p, s_r>>, <<s_p, s_f>>, <<s_r, s_f>>,
     <<s_p, s_r, s_f>>}

\* an optional argument: None or a value
Optional(S) == {<<>>} \cup {<<v>> : v \in S}

File_mzn == PyPath(<<"m", ".", "m", "z", "n">>)

File_dzn == PyPath(<<"d", ".", "d", "z", "n">>)

\* names NamedTemporaryFile may pick
TmpNames ==
    {<<"/", "t", "m", "p", "/">> \o s_tmp_prefix \o <<x>> \o s_tmp_suffix :
        x \in {"a", "b"}}

(***************************************************************************)
(* Driver detection: find_minizinc and the module-level load_solver.       *)
(* LD_LIBRARY_PATH is <<>> when unset and <<text>> when set; py is its     *)
(* entry in the mapping bound to os.environ, proc its value in the process *)
(* environment (an assignment to os.environ[...] calls putenv; rebinding   *)
(* the name os.environ does not).  An optional path is <<>> for None and   *)
(* <<list>> for a list of directories.                                     *)
(***************************************************************************)
n_minizinc == <<"m", "i", "n", "i", "z", "i", "n", "c">>

Environ(v) == [py |-> v, proc |-> v]

CDLL(name) == [ty |-> "CDLL", val |-> name, ref |-> 0]

is_library(elem) == elem.ty = "CDLL"

\* exceptions shutil.which raises for a path that is a non-empty list
\* (str.split is missing on a list; os.fsdecode rejects a list)
WhichListErrors == {"AttributeError", "TypeError"}

\* shutil.which(name, path=path); onPaths: an executable of that name is in
\* a directory that is searched; exc: the exception of the running version
shutil_which(name, path, onPaths, exc) ==
    IF path = <<>>
    THEN [kind |-> "return", exc |-> "",
          val |-> IF onPaths THEN PyStr(<<"/", "b", "i", "n", "/">> \o name, 0) ELSE None]
    ELSE IF path[1].val = <<>> THEN [kind |-> "return", exc |-> "", val |-> None]
    ELSE [kind |-> "raise", exc |-> exc, val |-> None]

\* find_minizinc(name, path) in environment env0; inst tells whether the
\* library loads and whether the executable is on the searched paths
find_minizinc(name, path, inst, env0, exc) ==
    LET joined == Join(<<":">>, path[1].val)
        set == IF path = <<>> THEN env0 ELSE Environ(<<joined>>)
        restored == [py |-> env0.py, proc |-> set.proc]
        w == shutil_which(name, path, inst.exe, exc)
    IN  IF inst.lib
        THEN [kind |-> "return", exc |-> "", handle |-> CDLL(name),
              environ |-> IF path = <<>> THEN env0 ELSE restored]
        ELSE IF w.kind = "raise"
        THEN [kind |-> "raise", exc |-> w.exc, handle |-> None, environ |-> set]
        ELSE [kind |-> "return", exc |-> "",
              handle |-> IF w.val # None THEN PyPath(w.val.val) ELSE None,
              environ |-> set]

\* load_solver(solver, minizinc) of the module.  LibDriver inherits the
\* body of Driver.load_solver (pass): the call returns None, no record.
load_solver(solver, minizinc, solvers, versionOut, debug) ==
    LET m == IF minizinc = None THEN default_driver ELSE minizinc
    IN  IF is_library(m)
        THEN [target |-> "LibDriver", res |-> Returned(NoInstance)]
        ELSE IF m # None
        THEN [target |-> "ExecDriver",
              res |-> ExecDriver_load_solver(solver, m, solvers, versionOut, debug)]
        ELSE [target |-> "none", res |-> Raised("FileExistsError", <<>>)]

NoDetection ==
    [kind |-> "none", exc |-> "", handle |-> None, path |-> <<>>,
     before |-> Environ(<<>>), target |-> "none"]

NoCall ==
    [op |-> "none", solver |-> <<>>, processes |-> <<>>, random_seed |-> <<>>,
     free_search |-> FALSE, files |-> <<>>, key |-> ""]

NoOutcome == [kind |-> "none", exc |-> "", arg |-> <<>>, code |-> 0]

Outcome(res) == [kind |-> res.kind, exc |-> res.exc, arg |-> res.arg, code |-> 0]

(***************************************************************************)
(* State.                                                                  *)
(***************************************************************************)
VARIABLES
    attrs,      \* attrs[r]: the attribute dictionary of record r
    pc,         \* pc[r]: "new", "idle", "scope", "finally", "failed" (the
                \* call that makes the record raised) or "absent" (it returned None)
    call,       \* call[r]: the current (or last) call on r and its arguments
    outcome,    \* outcome[r]: what that call returned or raised
    file,       \* file[r]: local variable file of _gen_solver
    solver,     \* solver[r]: the reference _gen_solver yielded
    cmd,        \* cmd[r]: the command handed to subprocess.run by the call
    spawned,    \* spawned[r]: whether the call started a process
    created,    \* created[r]: artifacts the call's _gen_solver has written
    writes,     \* writes[r]: host attribute writes so far
    fs,         \* the temporary artifacts that exist
    documents,  \* documents[r]: the to_json calls of the host on r, each the
                \* record as it was and the document returned
    environ,    \* LD_LIBRARY_PATH in os.environ and in the process environment
    detected,   \* the last find_minizinc call and the dispatch of its handle
    solvers,    \* the registry response of `driver --solvers-json`
    versionOut, \* what `driver --version` prints
    debug,      \* __debug__: whether assert statements are compiled
    installed   \* whether the library loads and the executable is on the paths

vars ==
    <<attrs, pc, call, outcome, file, solver, cmd, spawned, created, writes, fs,
      documents, environ, detected, solvers, versionOut, debug, installed>>

env == <<solvers, versionOut, debug, installed>>

host == <<documents, environ, detected>>

InitWith(registries, outs, debugs, installs, environs) ==
    /\ attrs = [r \in Records |-> NoInstance]
    /\ pc = [r \in Records |-> "new"]
    /\ call = [r \in Records |-> NoCall]
    /\ outcome = [r \in Records |-> NoOutcome]
    /\ file = [r \in Records |-> <<>>]
    /\ solver = [r \in Records |-> None]
    /\ cmd = [r \in Records |-> <<>>]
    /\ spawned = [r \in Records |-> FALSE]
    /\ created = [r \in Records |-> 0]
    /\ writes = [r \in Records |-> 0]
    /\ fs = {}
    /\ documents = [r \in Records |-> {}]
    /\ environ \in environs
    /\ detected = NoDetection
    /\ solvers \in {json_loads(doc) : doc \in registries}
    /\ versionOut \in outs
    /\ debug \in debugs
    /\ installed \in installs

(***************************************************************************)
(* Actions.                                                                *)
(***************************************************************************)
\* the host constructs a record directly: ExecDriver(name, version, executable, minizinc)
Construct(r) ==
    /\ pc[r] = "new"
    /\ \E minizinc \in {DriverPath, None} :
         LET res == ExecDriver_init(PyStr(n_Gecode, 0),
                                    PyStr(<<"6", ".", "1", ".", "0">>, 0),
                                    PyStr(<<"f", "z", "n">>, 0), minizinc, versionOut,
                                    debug)
         IN  /\ attrs' = [attrs EXCEPT ![r] = res.self]
             /\ pc' = [pc EXCEPT ![r] = IF res.kind = "return" THEN "idle" ELSE "failed"]
             /\ call' = [call EXCEPT ![r] = [NoCall EXCEPT !.op = "init"]]
             /\ outcome' = [outcome EXCEPT ![r] = Outcome(res)]
    /\ UNCHANGED <<file, solver, cmd, spawned, created, writes, fs, host, env>>

\* load_solver(selector, driver) for a selector of selectors
Load(r, selectors) ==
    /\ pc[r] = "new"
    /\ \E sel \in selectors :
         LET res == ExecDriver_load_solver(sel, DriverPath, solvers, versionOut, debug)
         IN  /\ attrs' = [attrs EXCEPT ![r] = res.self]
             /\ pc' = [pc EXCEPT ![r] = IF res.kind = "return" THEN "idle" ELSE "failed"]
             /\ call' = [call EXCEPT ![r] = [NoCall EXCEPT !.op = "load_solver",
                                                           !.solver = sel]]
             /\ outcome' = [outcome EXCEPT ![r] = Outcome(res)]
    /\ UNCHANGED <<file, solver, cmd, spawned, created, writes, fs, host, env>>

\* the objects the host may assign to an attribute
HostObjects(key) ==
    CASE key = "version" ->
           {PyTuple(v, c) : v \in {<<6, 1, 0>>, <<6, 2, 0>>}, c \in Refs}
      [] key \in {"executable", "mznlib"} ->
           {PyStr(v, c) : v \in {<<>>, <<"f", "z", "n">>}, c \in Refs}
      [] key = "name" ->
           {PyStr(v, c) : v \in {n_Gecode, n_chuffed}, c \in Refs}
      [] key = "id" -> {None, PyStr(n_org_chuffed, 0)}
      [] key = "driver" -> {DriverPath, OtherDriverPath}
      [] key = "tags" ->
           {PyList(v, c) : v \in {<<>>, <<n_cp>>}, c \in Refs}
      [] key = "stdFlags" ->
           {PyList(v, c) : v \in {<<>>, <<s_p, s_r, s_f>>}, c \in Refs}
      [] key = "extraFlags" ->
           {PyList(v, c) : v \in {<<>>, <<<<"-", "-", "c", "-", "d">>>>}, c \in Refs}
      [] OTHER -> {PyBool(TRUE), PyBool(FALSE)}

\* the host assigns record.key = value
HostWrite(r, keys) ==
    /\ pc[r] = "idle"
    /\ writes[r] < MaxWrites
    /\ \E key \in keys :
         /\ \E value \in HostObjects(key) :
               attrs' = [attrs EXCEPT ![r] = Setattr(attrs[r], key, value)]
         /\ call' = [call EXCEPT ![r] = [NoCall EXCEPT !.op = "setattr", !.key = key]]
    /\ writes' = [writes EXCEPT ![r] = @ + 1]
    /\ outcome' = [outcome EXCEPT ![r] = NoOutcome]
    /\ cmd' = [cmd EXCEPT ![r] = <<>>]
    /\ spawned' = [spawned EXCEPT ![r] = FALSE]
    /\ created' = [created EXCEPT ![r] = 0]
    /\ UNCHANGED <<pc, file, solver, fs, host, env>>

\* what subprocess.run may do with a launchable command: fail to start the
\* process (OSError), or run it to an exit status
RunOutcomes == {[started |-> FALSE, code |-> 0], [started |-> TRUE, code |-> 0],
                [started |-> TRUE, code |-> 1]}

\* a NamedTemporaryFile that may pick a name already in use
FreshNamesReused(self, fsys) ==
    IF self["id"] = None THEN TmpNames ELSE {<<>>}

\* the names NamedTemporaryFile may pick when _gen_solver calls it: one that
\* does not exist yet (<<>> stands for "not called")
FreshNames(self, fsys) ==
    IF self["id"] = None THEN TmpNames \ FsNames(fsys) ELSE {<<>>}

\* solve(instance, processes, random_seed, free_search) enters _gen_solver
SolveEnter(r, requests) ==
    /\ pc[r] = "idle"
    /\ \E fresh \in FreshNames(attrs[r], fs) :
         LET g == GenSolverEnter(attrs[r], fs, fresh)
         IN  /\ attrs' = [attrs EXCEPT ![r] = g.self]
             /\ fs' = g.fsys
             /\ file' = [file EXCEPT ![r] = g.file]
             /\ solver' = [solver EXCEPT ![r] = g.solver]
             /\ created' = [created EXCEPT ![r] = Cardinality(g.fsys \ fs)]
    /\ \E req \in requests : call' = [call EXCEPT ![r] = req]
    /\ pc' = [pc EXCEPT ![r] = "scope"]
    /\ outcome' = [outcome EXCEPT ![r] = NoOutcome]
    /\ cmd' = [cmd EXCEPT ![r] = <<>>]
    /\ spawned' = [spawned EXCEPT ![r] = FALSE]
    /\ UNCHANGED <<writes, host, env>>

\* the body of the with statement: build the command, run it, decode
SolveBody(r) ==
    /\ pc[r] = "scope"
    /\ LET c == solve_cmd(attrs[r], solver[r], call[r].processes, call[r].random_seed,
                          call[r].free_search, call[r].files)
       IN  \E run \in RunOutcomes :
              /\ cmd' = [cmd EXCEPT ![r] = c.cmd]
              /\ spawned' = [spawned EXCEPT ![r] =
                               c.kind = "cmd" /\ Launchable(c.cmd) /\ run.started]
              /\ outcome' = [outcome EXCEPT ![r] = solve_run(c, run)]
    /\ pc' = [pc EXCEPT ![r] = "finally"]
    /\ UNCHANGED <<attrs, call, file, solver, created, writes, fs, host, env>>

\* the finally clause of _gen_solver, then solve returns or raises
SolveExit(r) ==
    /\ pc[r] = "finally"
    /\ LET g == GenSolverExit(attrs[r], fs, file[r], outcome[r].kind = "raise")
       IN  /\ attrs' = [attrs EXCEPT ![r] = g.self]
           /\ fs' = g.fsys
    /\ file' = [file EXCEPT ![r] = <<>>]
    /\ solver' = [solver EXCEPT ![r] = None]
    /\ pc' = [pc EXCEPT ![r] = "idle"]
    /\ UNCHANGED <<call, outcome, cmd, spawned, created, writes, host, env>>

\* the host calls record.to_json()
Serialize(r) ==
    /\ pc[r] = "idle"
    /\ Cardinality(documents[r]) < MaxDocs
    /\ documents' = [documents EXCEPT ![r] =
                        @ \cup {[self |-> attrs[r], doc |-> to_json(attrs[r])]}]
    /\ documents' # documents
    /\ UNCHANGED <<attrs, pc, call, outcome, file, solver, cmd, spawned, created,
                   writes, fs, environ, detected, env>>

\* the host calls find_minizinc(name, path) for a path of paths
Detect(paths) ==
    /\ detected.kind = "none"
    /\ \E path \in paths, exc \in WhichListErrors :
         LET f == find_minizinc(n_minizinc, path, installed, environ, exc)
         IN  /\ detected' = [kind |-> f.kind, exc |-> f.exc, handle |-> f.handle,
                             path |-> path, before |-> environ, target |-> "none"]
             /\ environ' = f.environ
    /\ UNCHANGED <<attrs, pc, call, outcome, file, solver, cmd, spawned, created,
                   writes, fs, documents, env>>

\* the host calls load_solver(selector, handle) with the handle detected
Dispatch(r, selectors) ==
    /\ pc[r] = "new"
    /\ detected.kind = "return"
    /\ \E sel \in selectors :
         LET d == load_solver(sel, detected.handle, solvers, versionOut, debug)
         IN  /\ attrs' = [attrs EXCEPT ![r] = d.res.self]
             /\ pc' = [pc EXCEPT ![r] =
                         IF d.res.kind = "raise" THEN "failed"
                         ELSE IF d.target = "LibDriver" THEN "absent" ELSE "idle"]
             /\ call' = [call EXCEPT ![r] = [NoCall EXCEPT !.op = "load_solver",
                                                           !.solver = sel]]
             /\ outcome' = [outcome EXCEPT ![r] = Outcome(d.res)]
             /\ detected' = [detected EXCEPT !.target = d.target]
    /\ UNCHANGED <<file, solver, cmd, spawned, created, writes, fs, documents,
                   environ, env>>

Request(processes, random_seed, free_search, files) ==
    [op |-> "solve", solver |-> <<>>, processes |-> processes,
     random_seed |-> random_seed, free_search |-> free_search, files |-> files,
     key |-> ""]

(***************************************************************************)
(* Spec: the life of one record.  It is constructed directly or loaded,    *)
(* the host assigns attributes, and solve materializes it.                 *)
(***************************************************************************)
AllFlags == <<s_p, s_r, s_f>>

\* an installation without the native library
ExecutableOnly == [lib |-> FALSE, exe |-> TRUE]

LifeRegistries ==
    {<<Descriptor(n_org_gecode, OptionalKeys, <<n_cp>>, AllFlags)>>,
     <<Descriptor(n_org_gecode, {}, <<>>, <<>>)>>}

LifeSelectors == {n_gecode, n_absent}

LifeRequests ==
    {Request(<<>>, <<>>, FALSE, <<File_mzn>>),
     Request(<<>>, <<>>, TRUE, <<File_mzn, File_dzn>>)}

Init == InitWith(LifeRegistries, VersionOuts, {TRUE}, {ExecutableOnly}, {Environ(<<>>)})

Next ==
    \E r \in {"r1"} :
        \/ Construct(r)
        \/ Load(r, LifeSelectors)
        \/ HostWrite(r, CapabilityFields \cup {"name"})
        \/ SolveEnter(r, LifeRequests)
        \/ SolveBody(r)
        \/ SolveExit(r)

Spec == Init /\ [][Next]_vars

(***************************************************************************)
(* SpecSolve: solve requests against records of every stdFlags.            *)
(***************************************************************************)
SolveRegistries ==
    {<<Descriptor(n_org_gecode, {"stdFlags"}, <<>>, fl)>> : fl \in FlagLists}
    \cup {<<Descriptor(n_org_gecode, {}, <<>>, <<>>)>>}

SolveRequests ==
    {Request(p, s, f, fl) :
        p \in Optional({0, 4}), s \in Optional({7}), f \in BOOLEAN,
        fl \in {<<File_mzn>>, <<File_mzn, File_dzn>>}}

InitSolve ==
    InitWith(SolveRegistries, {VersionOutNew}, {TRUE}, {ExecutableOnly}, {Environ(<<>>)})

NextSolve ==
    \E r \in {"r1"} :
        \/ Construct(r)
        \/ Load(r, {n_gecode})
        \/ HostWrite(r, {"tags"})
        \/ SolveEnter(r, SolveRequests)
        \/ SolveBody(r)
        \/ SolveExit(r)

SpecSolve == InitSolve /\ [][NextSolve]_vars

(***************************************************************************)
(* SpecLoad: load_solver against every registry response and selector.     *)
(***************************************************************************)
LoadIds == {n_org_gecode, n_org_chuffed, n_gecode}

LoadDescriptors ==
    {Descriptor(id, {}, <<>>, AllFlags) : id \in LoadIds}
    \cup {Descriptor(id, OptionalKeys, <<n_cp>>, AllFlags) : id \in LoadIds}
    \cup {Descriptor(id, OptionalKeys \ {"mznlib"}, <<n_cp, n_gecode>>, AllFlags) :
             id \in LoadIds}
    \cup {Descriptor(n_org_gecode, {"mznlib"}, <<>>, AllFlags)}

LoadSelectors == {n_gecode, n_cp, n_org_gecode, n_chuffed, n_absent}

InitLoad ==
    InitWith(SeqsUpTo(LoadDescriptors, MaxSolvers), {VersionOutNew}, {TRUE},
             {ExecutableOnly}, {Environ(<<>>)})

NextLoad == \E r \in {"r1"} : Load(r, LoadSelectors)

SpecLoad == InitLoad /\ [][NextLoad]_vars

(***************************************************************************)
(* SpecDoc: a record is constructed or loaded, the host assigns attributes *)
(* and reads the document to_json returns.                                 *)
(***************************************************************************)
DocKeys == {"name", "driver", "id", "stdFlags", "extraFlags"}

InitDoc ==
    InitWith(LifeRegistries, {VersionOutNew}, {TRUE}, {ExecutableOnly}, {Environ(<<>>)})

NextDoc ==
    \E r \in {"r1"} :
        \/ Construct(r)
        \/ Load(r, {n_gecode})
        \/ HostWrite(r, DocKeys)
        \/ Serialize(r)

SpecDoc == InitDoc /\ [][NextDoc]_vars

(***************************************************************************)
(* SpecVersion: construction and discovery against base tools of several   *)
(* versions, with assert statements compiled or not.                       *)
(***************************************************************************)
InitVersion ==
    InitWith(LifeRegistries, VersionOutsAround, BOOLEAN, {ExecutableOnly}, {Environ(<<>>)})

NextVersion ==
    \E r \in {"r1"} :
        \/ Construct(r)
        \/ Load(r, LifeSelectors)
        \/ HostWrite(r, {"name"})

SpecVersion == InitVersion /\ [][NextVersion]_vars

(***************************************************************************)
(* SpecPair: two records, constructed directly, solve concurrently.        *)
(***************************************************************************)
PairRequests == {Request(<<>>, <<>>, FALSE, <<File_mzn>>)}

InitPair ==
    InitWith({<<>>}, {VersionOutNew}, {TRUE}, {ExecutableOnly}, {Environ(<<>>)})

NextPair ==
    \E r \in Records :
        \/ Construct(r)
        \/ SolveEnter(r, PairRequests)
        \/ SolveBody(r)
        \/ SolveExit(r)

SpecPair == InitPair /\ [][NextPair]_vars

(***************************************************************************)
(* SpecDetect: find_minizinc in every installation, then the dispatch of   *)
(* the handle it returned.                                                 *)
(***************************************************************************)
Dir_opt == <<"/", "o", "p", "t">>

Dir_usr == <<"/", "u", "s", "r">>

\* the path argument: None, or a list of directories
DetectPaths ==
    Optional({PyList(<<>>, 0), PyList(<<Dir_opt>>, 0), PyList(<<Dir_opt, Dir_usr>>, 0)})

Installations == [lib : BOOLEAN, exe : BOOLEAN]

InitDetect ==
    InitWith(LifeRegistries, {VersionOutNew}, {TRUE}, Installations,
             {Environ(<<>>), Environ(<<Dir_usr>>)})

NextDetect ==
    \/ Detect(DetectPaths)
    \/ \E r \in {"r1"} : Dispatch(r, LifeSelectors)

SpecDetect == InitDetect /\ [][NextDetect]_vars

(***************************************************************************)
(* Properties.                                                             *)
(***************************************************************************)
Live(r) == pc[r] \in {"idle", "scope", "finally"}

\* the record load_solver returns for the one selector of LifeSelectors that
\* matches a descriptor of LifeRegistries
LifeLoaded ==
    ExecDriver_load_solver(n_gecode, DriverPath, solvers, versionOut, debug).self

\* some capability field of r differs by value between the two dictionaries
CapabilityChanged(old, new) ==
    \E k \in CapabilityFields : ~PyEq(old[k], new[k])

\* C1: a write to a capability field of a value that differs from the current
\* one leaves id None right after the write; and id is not None only while no
\* capability field has changed since id was assigned: outside a
\* materialization scope the record still holds what load_solver stored, and
\* inside a scope that wrote an artifact the artifact is the serialization of
\* the record as it is.
C1_WriteStep ==
    \A r \in Records :
        (pc[r] = "idle" /\ pc'[r] = "idle" /\ CapabilityChanged(attrs[r], attrs'[r]))
            => attrs'[r]["id"] = None

C1_IdentityBasis ==
    \A r \in Records :
        (Live(r) /\ attrs[r]["id"] # None)
            => IF file[r] # <<>>
               THEN [name |-> file[r][1],
                     doc |-> to_json([attrs[r] EXCEPT !["id"] = None])] \in fs
               ELSE ~CapabilityChanged(LifeLoaded, attrs[r])

C1_WriteClearsIdentity == [][C1_WriteStep]_vars /\ []C1_IdentityBasis

\* a loaded record (its name is still the object json.loads built) that the
\* host changed in a capability field, and whose id is None
C1_Witness ==
    \E r \in Records :
        /\ pc[r] = "idle" /\ call[r].op = "setattr"
        /\ Is(attrs[r]["name"], solvers[1]["name"])
        /\ CapabilityChanged(LifeLoaded, attrs[r])
        /\ attrs[r]["id"] = None

\* C2 (as claimed): a host write that changes no capability field by value,
\* such as a distinct list with equal contents, leaves id as it was.
C2_EqualWriteKeepsIdentity ==
    [][\A r \in Records :
          (/\ pc[r] = "idle" /\ pc'[r] = "idle"
           /\ call'[r].op = "setattr"
           /\ ~CapabilityChanged(attrs[r], attrs'[r]))
              => attrs'[r]["id"] = attrs[r]["id"]]_vars

\* C3: materializing a record whose id is None writes exactly one artifact
\* and sets id to its location; while the scope is open the artifact exists
\* and id is its location; and when the scope ends, whether the body returned
\* or raised, the artifact is gone and id is None again.
C3_EnterStep ==
    \A r \in Records :
        (pc[r] = "idle" /\ pc'[r] = "scope" /\ attrs[r]["id"] = None)
            => \E n \in TmpNames :
                  /\ n \notin FsNames(fs)
                  /\ FsNames(fs') = FsNames(fs) \cup {n}
                  /\ Cardinality(fs') = Cardinality(fs) + 1
                  /\ file'[r] = <<n>>
                  /\ attrs'[r]["id"].ty = "str" /\ attrs'[r]["id"].val = n

C3_InScope ==
    \A r \in Records :
        (pc[r] \in {"scope", "finally"} /\ file[r] # <<>>)
            => /\ file[r][1] \in FsNames(fs)
               /\ attrs[r]["id"].ty = "str" /\ attrs[r]["id"].val = file[r][1]

C3_ExitStep ==
    \A r \in Records :
        (pc[r] = "finally" /\ pc'[r] = "idle" /\ file[r] # <<>>)
            => /\ file[r][1] \notin FsNames(fs')
               /\ attrs'[r]["id"] = None

C3_NullIdentityScope == [][C3_EnterStep /\ C3_ExitStep]_vars /\ []C3_InScope

\* a solve on a record with id None was rejected by a capability gate, and
\* after it the one artifact it wrote is gone and id is None
C3_Witness ==
    \E r \in Records :
        /\ pc[r] = "idle" /\ call[r].op = "solve"
        /\ outcome[r].kind = "raise" /\ outcome[r].exc = "NotImplementedError"
        /\ created[r] = 1
        /\ fs = {}
        /\ attrs[r]["id"] = None

\* C4: materializing a record whose id is not None writes nothing, yields
\* that id as the reference and leaves id alone, through the scope and after
\* it, whether the body returned or raised.
C4_EnterStep ==
    \A r \in Records :
        (pc[r] = "idle" /\ pc'[r] = "scope" /\ attrs[r]["id"] # None)
            => /\ fs' = fs
               /\ file'[r] = <<>>
               /\ solver'[r] = attrs[r]["id"]
               /\ attrs'[r]["id"] = attrs[r]["id"]

C4_InScope ==
    \A r \in Records :
        (pc[r] \in {"scope", "finally"} /\ file[r] = <<>>)
            => attrs[r]["id"] # None /\ attrs[r]["id"] = solver[r]

C4_ExitStep ==
    \A r \in Records :
        (pc[r] = "finally" /\ pc'[r] = "idle" /\ file[r] = <<>>)
            => fs' = fs /\ attrs'[r]["id"] = attrs[r]["id"]

C4_SetIdentityScope == [][C4_EnterStep /\ C4_ExitStep]_vars /\ []C4_InScope

\* a solve on a loaded record failed, wrote nothing, and id is still the
\* identifier of the registry
C4_Witness ==
    \E r \in Records :
        /\ pc[r] = "idle" /\ call[r].op = "solve"
        /\ outcome[r].kind = "raise"
        /\ created[r] = 0 /\ fs = {}
        /\ attrs[r]["id"] = solvers[1]["id"]

(***************************************************************************)
(* The capability gates, read off the request and the record.              *)
(***************************************************************************)
\* is the flag in the record's stdFlags
HasFlag(r, flag) == PyIn(flag, attrs[r]["stdFlags"])

\* the gated request fields, in the order of the table: the flag each needs
\* and whether the request of r asks for it
Gates(r) ==
    <<[flag |-> s_p, requested |-> call[r].processes # <<>>],
      [flag |-> s_r, requested |-> call[r].random_seed # <<>>],
      [flag |-> s_f, requested |-> call[r].free_search]>>

Rejects(r, i) == Gates(r)[i].requested /\ ~HasFlag(r, Gates(r)[i].flag)

Solved(r) == call[r].op = "solve" /\ pc[r] \in {"finally", "idle"}

Rejection(r, flag) ==
    /\ outcome[r].kind = "raise"
    /\ outcome[r].exc = "NotImplementedError"
    /\ outcome[r].arg = <<flag>>
    /\ ~spawned[r]
    /\ cmd[r] = <<>>

\* C5 (as claimed): for each gated field, if it is requested and its flag is
\* not in stdFlags, solve raises the error naming that flag and no process
\* is spawned.
C5_EachGateNamesItsFlag ==
    \A r \in Records :
        Solved(r) => \A i \in 1..3 : Rejects(r, i) => Rejection(r, Gates(r)[i].flag)

\* C5 (amended): if a gated field is requested and its flag is not in
\* stdFlags, solve raises the error naming the first such flag in the order
\* -p, -r, -f, and no process is spawned.
C5_FirstFailingGate ==
    \A r \in Records :
        Solved(r) =>
            \A i \in 1..3 :
                (Rejects(r, i) /\ \A j \in 1..(i - 1) : ~Rejects(r, j))
                    => Rejection(r, Gates(r)[i].flag)

\* only the random seed is requested, -r is missing, and the error names -r
C5_Witness ==
    \E r \in Records :
        /\ Solved(r)
        /\ ~Rejects(r, 1) /\ Rejects(r, 2)
        /\ Rejection(r, s_r)

\* C6: the command of an accepted request is the base tool, --solver, the
\* materialized reference, --output-mode, json, --output-time, then -p count,
\* -r seed and -f for the fields requested, in that order, then the instance
\* files in bundle order, and nothing else.
Accepted(r) == \A i \in 1..3 : ~Rejects(r, i)

ExpectedCommand(r) ==
    <<Tok(DriverPath), StrTok(s_solver), Tok(attrs[r]["id"]), StrTok(s_output_mode),
      StrTok(s_json), StrTok(s_output_time)>>
    \o (IF call[r].processes # <<>>
        THEN <<StrTok(s_p), IntTok(call[r].processes[1])>> ELSE <<>>)
    \o (IF call[r].random_seed # <<>>
        THEN <<StrTok(s_r), IntTok(call[r].random_seed[1])>> ELSE <<>>)
    \o (IF call[r].free_search THEN <<StrTok(s_f)>> ELSE <<>>)
    \o [i \in 1..Len(call[r].files) |-> Tok(call[r].files[i])]

C6_CommandLayout ==
    \A r \in Records :
        (call[r].op = "solve" /\ pc[r] = "finally" /\ Accepted(r))
            => cmd[r] = ExpectedCommand(r)

\* an accepted request that asks for all three gated options and two files
C6_Witness ==
    \E r \in Records :
        /\ call[r].op = "solve" /\ pc[r] = "finally" /\ Accepted(r)
        /\ call[r].processes # <<>> /\ call[r].random_seed # <<>> /\ call[r].free_search
        /\ Len(call[r].files) = 2
        /\ Len(cmd[r]) = 13

(***************************************************************************)
(* Discovery, read off the registry response and the selector.             *)
(***************************************************************************)
\* {full id, last dot-separated segment of id} union tags
Candidates(d) ==
    {d["id"].val, LastSegment(d["id"].val)}
    \cup (IF "tags" \in DOMAIN d THEN Range(d["tags"].val) ELSE {})

Matching(sel) == {i \in 1..Len(solvers) : sel \in Candidates(solvers[i])}

LoadCalled(r) == call[r].op = "load_solver"

\* the record holds the name and executable objects of descriptor d
BuiltFrom(self, d) == Is(self["name"], d["name"]) /\ Is(self["executable"], d["executable"])

\* C7: load_solver returns the record built from the first descriptor, in
\* registry order, whose candidate names contain the selector.
C7_FirstMatchWins ==
    \A r \in Records :
        (LoadCalled(r) /\ Matching(call[r].solver) # {})
            => /\ pc[r] = "idle" /\ outcome[r].kind = "return"
               /\ \E i \in Matching(call[r].solver) :
                     /\ \A j \in 1..(i - 1) : j \notin Matching(call[r].solver)
                     /\ BuiltFrom(attrs[r], solvers[i])

\* two descriptors with different ids share the tag that was asked for, and
\* the record is the first one's
C7_Witness ==
    \E r \in Records :
        /\ LoadCalled(r) /\ pc[r] = "idle"
        /\ call[r].solver = n_cp
        /\ Matching(n_cp) = {1, 2}
        /\ solvers[1]["id"].val # solvers[2]["id"].val
        /\ BuiltFrom(attrs[r], solvers[1])

StrictlySorted(l) == \A i \in 1..(Len(l) - 1) : StrLess(l[i], l[i + 1])

\* C8: when no descriptor matches, load_solver raises the lookup error,
\* builds no record, and the error carries the sorted, duplicate-free list
\* of the candidate names of all descriptors.
C8_NotFoundCarriesAllNames ==
    \A r \in Records :
        (LoadCalled(r) /\ Matching(call[r].solver) = {})
            => /\ pc[r] = "failed" /\ attrs[r] = NoInstance
               /\ outcome[r].kind = "raise" /\ outcome[r].exc = "LookupError"
               /\ StrictlySorted(outcome[r].arg)
               /\ Range(outcome[r].arg)
                     = UNION {Candidates(solvers[i]) : i \in 1..Len(solvers)}

\* a failed lookup against two descriptors, one of them with tags
C8_Witness ==
    \E r \in Records :
        /\ LoadCalled(r) /\ pc[r] = "failed"
        /\ outcome[r].exc = "LookupError"
        /\ Len(solvers) = 2
        /\ "tags" \in DOMAIN solvers[2]
        /\ solvers[1]["id"].val # solvers[2]["id"].val
        /\ Len(outcome[r].arg) >= 4

\* the default of an optional capability field that the descriptor omits
HoldsDefault(key, o) ==
    CASE key \in {"tags", "stdFlags", "extraFlags"} ->
           o.ty \in {"list", "str"} /\ Len(o.val) = 0
      [] key = "supportsFzn" -> PyEq(o, PyBool(TRUE))
      [] OTHER -> PyEq(o, PyBool(FALSE))

\* C9 (as claimed): a loaded record holds, for every optional field the
\* descriptor omits, that field's own default (supportsMzn false, supportsFzn
\* true, the needs flags and isGUIApplication false, tags, stdFlags and
\* extraFlags empty), and the descriptor's value for a field it holds.
C9_PerFieldDefaults ==
    \A r \in Records :
        (LoadCalled(r) /\ pc[r] = "idle")
            => \A i \in Matching(call[r].solver) :
                  BuiltFrom(attrs[r], solvers[i])
                     => \A k \in OptionalKeys \ {"mznlib"} :
                           IF k \in DOMAIN solvers[i]
                           THEN Is(attrs[r][k], solvers[i][k])
                           ELSE HoldsDefault(k, attrs[r][k])

\* C10: after load_solver succeeds, id is not None and is the matched
\* descriptor's identifier, whatever optional fields the descriptor overlays.
C10_LoadedIdentity ==
    \A r \in Records :
        (LoadCalled(r) /\ pc[r] = "idle")
            => /\ attrs[r]["id"] # None
               /\ \E i \in Matching(call[r].solver) :
                     /\ BuiltFrom(attrs[r], solvers[i])
                     /\ Is(attrs[r]["id"], solvers[i]["id"])

\* a record loaded from a descriptor that holds every optional key: the
\* overlay stored the descriptor's objects and id is the descriptor's id
C10_Witness ==
    \E r \in Records :
        /\ LoadCalled(r) /\ pc[r] = "idle"
        /\ \E i \in Matching(call[r].solver) :
              /\ OptionalKeys \subseteq DOMAIN solvers[i]
              /\ \A k \in OptionalKeys : Is(attrs[r][k], solvers[i][k])
              /\ Is(attrs[r]["id"], solvers[i]["id"])

(***************************************************************************)
(* Serialization.                                                          *)
(***************************************************************************)
\* text is name with every upper-case letter replaced by its lower-case one
Lowercased(name, text) ==
    /\ Len(text) = Len(name)
    /\ \A i \in 1..Len(name) :
          IF \E j \in 1..Len(Upper) : Upper[j] = name[i]
          THEN \E j \in 1..Len(Upper) : Upper[j] = name[i] /\ Lower[j] = text[i]
          ELSE text[i] = name[i]

\* the id key of a document is the prefix followed by the lower-cased name
DefaultId(name, id) ==
    /\ id.ty = "str"
    /\ Len(id.val) >= Len(s_id_prefix)
    /\ SubSeq(id.val, 1, Len(s_id_prefix)) = s_id_prefix
    /\ Lowercased(name, SubSeq(id.val, Len(s_id_prefix) + 1, Len(id.val)))

C11_SerializeStep ==
    \A r \in Records : documents'[r] # documents[r] => attrs'[r] = attrs[r]

C11_IdKey ==
    \A r \in Records : \A e \in documents[r] :
        IF e.self["id"] = None
        THEN DefaultId(e.self["name"].val, e.doc.id)
        ELSE e.doc.id.ty = e.self["id"].ty /\ e.doc.id.val = e.self["id"].val

\* C11: the id key of the document to_json returns is "org.minizinc.python."
\* followed by the lower-cased name when the record's id is None, and is
\* exactly id otherwise; the call changes no attribute of the record.
C11_DocumentId == [][C11_SerializeStep]_vars /\ []C11_IdKey

\* both cases on one record: a document made while id was set and one made
\* while it was None under a name with an upper-case letter
C11_Witness ==
    \E e1, e2 \in documents["r1"] :
        /\ e1.self["id"] = None
        /\ e1.self["name"].val = n_Gecode
        /\ e1.doc.id.val = s_id_prefix \o n_gecode
        /\ e2.self["id"] # None
        /\ e2.doc.id.val = n_org_gecode

\* C12 (as claimed): the document holds every capability field and the id
\* key, so two states of a record that differ in a capability field have
\* different documents.
C12_DocumentHasEveryField ==
    \A r \in Records :
        /\ \A e \in documents[r] : CapabilityFields \cup {"id"} \subseteq DOMAIN e.doc
        /\ \A e1, e2 \in documents[r] :
              CapabilityChanged(e1.self, e2.self) => e1.doc # e2.doc

(***************************************************************************)
(* Writes outside the capability-field list.                               *)
(***************************************************************************)
C19_WriteStep ==
    \A r \in Records :
        (writes'[r] # writes[r] /\ call'[r].key \notin CapabilityFields \cup {"id"})
            => attrs'[r]["id"] = attrs[r]["id"]

C19_NameInDocument ==
    \A r \in Records : \A e \in documents[r] : e.doc.name = JsonVal(e.self["name"])

\* C19: a write to an attribute outside the capability-field list (name,
\* driver) leaves id as it was, although the document to_json returns holds
\* the name.
C19_OtherWritesKeepIdentity == [][C19_WriteStep]_vars /\ []C19_NameInDocument

\* a loaded record was renamed, kept its id, and was serialized under the
\* new name
C19_Witness ==
    /\ call["r1"].op = "setattr"
    /\ call["r1"].key = "name"
    /\ attrs["r1"]["name"].val = n_chuffed
    /\ attrs["r1"]["id"].val = n_org_gecode
    /\ \E e \in documents["r1"] :
          /\ e.self = attrs["r1"]
          /\ e.doc.name.val = n_chuffed
          /\ e.doc.id.val = n_org_gecode

(***************************************************************************)
(* The exit status of the solve process.                                   *)
(***************************************************************************)
\* a body that started the process hands the completed process to the
\* decoder, whatever the exit status
C13_RunStep ==
    \A r \in Records :
        (pc[r] = "scope" /\ spawned'[r]) => outcome'[r].kind = "return"

\* once solve has returned, the scope is released as on success
C13_Released ==
    \A r \in Records :
        (Solved(r) /\ pc[r] = "idle" /\ spawned[r])
            => /\ outcome[r].kind = "return"
               /\ file[r] = <<>>
               /\ fs = {}
               /\ created[r] > 0 => attrs[r]["id"] = None

\* C13: a solve process that ran raises nothing in solve, for every exit
\* status: the completed process (with its exit status) goes to the result
\* decoder and the materialization scope is then released as on success.
C13_ExitStatusIsData == [][C13_RunStep]_vars /\ []C13_Released

\* solve returned after a process that ended with status 1; the artifact
\* it wrote is gone and id is None again
C13_Witness ==
    /\ Solved("r1")
    /\ pc["r1"] = "idle"
    /\ spawned["r1"]
    /\ outcome["r1"].kind = "return"
    /\ outcome["r1"].code = 1
    /\ created["r1"] = 1
    /\ fs = {}
    /\ attrs["r1"]["id"] = None

(***************************************************************************)
(* Request fields that are absent.                                         *)
(***************************************************************************)
NothingRequested(r) == \A i \in 1..3 : ~Gates(r)[i].requested

CmdTokens(r) == {cmd[r][i] : i \in 1..Len(cmd[r])}

\* C18: a request with no process count, no seed and free_search false
\* passes the gates under every stdFlags and its command holds none of
\* -p, -r, -f; a gated token is in a command only if its field was requested
\* and its flag is in stdFlags.
C18_AbsentNotGated ==
    \A r \in Records :
        Solved(r) =>
            /\ NothingRequested(r) =>
                  /\ cmd[r] # <<>>
                  /\ outcome[r].exc \notin {"NotImplementedError", "TypeError"}
                  /\ CmdTokens(r) \cap {StrTok(s_p), StrTok(s_r), StrTok(s_f)} = {}
            /\ \A i \in 1..3 :
                  StrTok(Gates(r)[i].flag) \in CmdTokens(r)
                      => Gates(r)[i].requested /\ HasFlag(r, Gates(r)[i].flag)

\* a request without gated fields ran against a record with empty stdFlags
C18_Witness ==
    /\ Solved("r1")
    /\ NothingRequested("r1")
    /\ attrs["r1"]["stdFlags"].val = <<>>
    /\ spawned["r1"]
    /\ Len(cmd["r1"]) = 7

(***************************************************************************)
(* The minimum version of the base tool.                                   *)
(***************************************************************************)
\* triple a is lexicographically below triple b
LexBelow(a, b) ==
    \/ a[1] < b[1]
    \/ a[1] = b[1] /\ a[2] < b[2]
    \/ a[1] = b[1] /\ a[2] = b[2] /\ a[3] < b[3]

\* the version triple the base tool reports
ToolVersion == minizinc_version(versionOut)

\* C15 (as claimed): against a base tool whose version is below the required
\* minimum, construction raises and there is no record; against any other
\* version it does not raise on account of the version.
C15_VersionGate ==
    \A r \in Records :
        pc[r] # "new" =>
            IF LexBelow(ToolVersion, required_version)
            THEN ~Live(r) /\ outcome[r].kind = "raise"
            ELSE outcome[r].exc # "AssertionError"

(***************************************************************************)
(* Concurrent scopes on different records.                                 *)
(***************************************************************************)
InScope(r) == pc[r] \in {"scope", "finally"}

\* inside its scope a record holds its own artifact, which exists, and no
\* two scopes hold the same artifact
C16_OwnArtifact ==
    \A r \in Records :
        (InScope(r) /\ created[r] = 1) =>
            /\ file[r] # <<>>
            /\ file[r][1] \in FsNames(fs)
            /\ attrs[r]["id"] = PyStr(file[r][1], 0)
            /\ \A q \in Records \ {r} : InScope(q) => file[q] # file[r]

\* a step of one record changes neither the other record nor its artifact
C16_OtherUntouched ==
    \A r \in Records : \A q \in Records \ {r} :
        pc'[r] # pc[r] =>
            /\ attrs'[q] = attrs[q]
            /\ file'[q] = file[q]
            /\ \A e \in fs : (file[q] = <<e.name>>) => e \in fs'

\* when every scope has ended nothing is left
C16_AllReleased ==
    (\A r \in Records : Solved(r) /\ pc[r] = "idle")
        => fs = {} /\ \A r \in Records : attrs[r]["id"] = None

\* C16: solve calls on two records with id None, interleaved in any way,
\* each get an artifact of their own; a record's id in its scope is the
\* name of its own artifact; releasing one scope leaves the other record
\* and its artifact alone; after both scopes no artifact remains and both
\* ids are None.
C16_IndependentScopes ==
    [][C16_OtherUntouched]_vars /\ [](C16_OwnArtifact /\ C16_AllReleased)

\* the two scopes overlap: r1 is about to release while r2 is in its body
C16_Witness ==
    /\ pc["r1"] = "finally"
    /\ pc["r2"] = "scope"
    /\ created["r1"] = 1
    /\ created["r2"] = 1
    /\ Cardinality(fs) = 2

(***************************************************************************)
(* Driver detection.                                                       *)
(***************************************************************************)
\* find_minizinc was called with explicit search paths
ExplicitPaths == detected.path # <<>>

\* an executable of the name is in a directory the call was told to search
\* (the PATH when no list was given; an empty list names no directory)
OnSearchPaths == installed.exe /\ (ExplicitPaths => detected.path[1].val # <<>>)

Dispatched(r) == call[r].op = "load_solver"

\* C14 (as claimed): detection takes the library when it loads; only when
\* it does not load, it takes the executable found on the search paths; a
\* library handle is dispatched to LibDriver and an executable path to
\* ExecDriver; with neither, detection ends in the driver-not-found error,
\* never in a record built on an absent handle.
C14_DetectionOrder ==
    detected.kind # "none" =>
        /\ installed.lib =>
              detected.kind = "return" /\ is_library(detected.handle)
        /\ (~installed.lib /\ OnSearchPaths) =>
              detected.kind = "return" /\ detected.handle.ty = "Path"
        /\ (~installed.lib /\ ~OnSearchPaths) =>
              detected.kind = "return" /\ detected.handle = None
        /\ \A r \in Records :
              Dispatched(r) =>
                 /\ is_library(detected.handle) => detected.target = "LibDriver"
                 /\ detected.handle.ty = "Path" => detected.target = "ExecDriver"
                 /\ detected.handle = None =>
                       outcome[r].kind = "raise" /\ outcome[r].exc = "FileExistsError"

\* C17 (as claimed): after find_minizinc has returned from a call with
\* explicit search paths, LD_LIBRARY_PATH is what it was before the call,
\* in os.environ and in the process environment.
C17_EnvironmentRestored ==
    (detected.kind # "none" /\ ExplicitPaths) => environ = detected.before

====
